---- MODULE Spec2Model ----
(***************************************************************************)
(* A model of palm_rlhf_pytorch/reward.py: the RewardModel (a PaLM         *)
(* backbone copy with a scalar or binned head).                            *)
(*                                                                         *)
(* Objects live in heaps so that aliasing is visible: `palms` holds the    *)
(* PaLM instances (id 0 is the caller's backbone, the other ids are the    *)
(* copies the reward models own) and `scorers` the RewardModel instances.  *)
(* A tensor is abstracted to one representative number (its fill), a       *)
(* token batch x to its shape.  `last` is the call that has just run and   *)
(* whose outcome the caller has not yet taken.                             *)
(***************************************************************************)
EXTENDS Integers, Sequences, FiniteSets, TLC

VARIABLES palms, scorers, last

vars == <<palms, scorers, last>>

\* ------------------------------------------------------------------ bounds

MaxBatch == 1       \* batch size of x
MaxSeqLen == 2      \* sequence length of x
MaxBins == 2        \* largest num_binned_output passed to the constructor

\* ----------------------------------------------------------------- helpers

\* An optional argument is None or Some(v); a supplied tensor (a mask, the
\* lengths, the labels) is a non-empty tuple and stands for itself.
None == << >>

Some(v) == <<v>>

TheVal(opt) == opt[1]

exists(val) == val # None

default(val, default_val) == IF exists(val) THEN val ELSE default_val

\* The caller's backbone and the two reward models built from it (two, so
\* that sharing between reward models can show).
OrigPalm == 0

ScorerIds == {1, 2}

PalmIds == {OrigPalm} \cup ScorerIds

NoObj == [kind |-> "free"]

\* ----------------------------------------------------------- the backbone

\* state_dict key of the adapter registered under a scope
LoraKey(scope) == "finetune_modules." \o scope

BaseKey == "base"

\* PaLM.set_dropout(p)
SetDropout(palm, p) == [palm EXCEPT !.dropout = p]

\* PaLM.add_finetune_params(scope, lora_r): a fresh adapter under the scope;
\* the base weights are left alone
AddFinetuneParams(palm, scope, lora_r) ==
    [palm EXCEPT !.lora = [sc \in (DOMAIN palm.lora) \cup {scope} |->
                              IF sc = scope THEN [r |-> lora_r, w |-> 0]
                              ELSE palm.lora[sc]]]

\* PaLM.finetune_parameters(scope): the adapter parameters of one scope
PalmFinetuneParameters(pid, scope) == << <<"palm", pid, LoraKey(scope)>> >>

RECURSIVE SeqOfSet(_)
SeqOfSet(S) ==
    IF S = {} THEN << >>
    ELSE LET e == CHOOSE e \in S : TRUE IN <<e>> \o SeqOfSet(S \ {e})

\* PaLM.parameters(): every parameter of the instance, base and adapters
PalmParameters(pid, palm) ==
    << <<"palm", pid, BaseKey>> >>
        \o SeqOfSet({<<"palm", pid, LoraKey(sc)>> : sc \in DOMAIN palm.lora})

\* ------------------------------------------------------------ construction

\* a constructor without the copy would work on the caller's object itself
DeepCopyAliased(pid, fresh) == pid

\* copy.deepcopy(palm): the id of a new object (its contents are written by
\* the constructor from the original's), never the original's id
DeepCopy(pid, fresh) == fresh

\* a threshold one too low would make a single bin a classification head
BinnedOutputFromOne(num_binned_output) == num_binned_output >= 1

\* num_binned_output > 1
BinnedOutput(num_binned_output) == num_binned_output > 1

\* a constructor that built the scalar head whatever binned_output says
ToPredAlwaysScalar(binned_output, num_binned_output, w, b) ==
    [kind |-> "Sequential", out |-> 1, params |-> [k \in {"0.weight"} |-> w]]

\* the output head: nn.Linear(dim, num_binned_output) with a bias, or
\* nn.Sequential(nn.Linear(dim, 1, bias = False), Rearrange('... 1 -> ...'))
ToPred(binned_output, num_binned_output, w, b) ==
    IF binned_output
    THEN [kind |-> "Linear", out |-> num_binned_output,
          params |-> [k \in {"weight", "bias"} |-> IF k = "weight" THEN w ELSE b]]
    ELSE [kind |-> "Sequential", out |-> 1,
          params |-> [k \in {"0.weight"} |-> w]]

\* self.reward_lora_scope
RewardLoraScope(use_lora, reward_lora_scope) ==
    IF use_lora THEN reward_lora_scope ELSE None

\* self.sample_from_bins
SampleFromBins(sample_from_bins, binned_output) ==
    TheVal(default(sample_from_bins, Some(binned_output)))

Configs ==
    [dropout : {1},
     num_binned_output : 0..MaxBins,
     use_lora : BOOLEAN,
     lora_r : {8},
     reward_lora_scope : {Some("reward"), None},
     sample_from_bins : {None, Some(TRUE), Some(FALSE)},
     sample_temperature : {1},
     w : {0}, b : {1}]

NoResult == [kind |-> "none"]

Ok == [kind |-> "ok"]

Idle ==
    [op |-> "idle", self |-> 0, args |-> None, env |-> None, result |-> NoResult,
     trace |-> << >>, prompt_mask |-> None, palm_calls |-> << >>]

\* RewardModel.__init__; the built field of the new object is a history
\* variable (two of the arguments it was built with), not an attribute
ConstructCall(self, cfg) ==
    /\ last.op = "idle"
    /\ scorers[self] = NoObj
    /\ \A t \in ScorerIds : t < self => scorers[t] # NoObj
    /\ LET pid == DeepCopy(OrigPalm, self)
           scope == RewardLoraScope(cfg.use_lora, cfg.reward_lora_scope)
           p1 == SetDropout(palms[OrigPalm], cfg.dropout)
           p2 == IF exists(scope)
                 THEN AddFinetuneParams(p1, TheVal(cfg.reward_lora_scope), cfg.lora_r)
                 ELSE p1
           binned == BinnedOutput(cfg.num_binned_output)
       IN /\ palms' = [palms EXCEPT ![pid] = p2]
          /\ scorers' = [scorers EXCEPT ![self] =
                [kind |-> "RewardModel",
                 palm |-> pid,
                 reward_lora_scope |-> scope,
                 binned_output |-> binned,
                 prompt_embed |-> 0,
                 response_embed |-> 0,
                 to_pred |-> ToPred(binned, cfg.num_binned_output, cfg.w, cfg.b),
                 sample_from_bins |-> SampleFromBins(cfg.sample_from_bins, binned),
                 sample_temperature |-> cfg.sample_temperature,
                 built |-> [num_binned_output |-> cfg.num_binned_output,
                            sample_from_bins |-> cfg.sample_from_bins]]]
          /\ last' = [Idle EXCEPT !.op = "init", !.self = self, !.args = cfg,
                                  !.result = Ok]

\* the configurations the two-model specification builds from: every head
\* and both fine-tuning modes, with the sampling and scope defaults
PairConfigs ==
    {cfg \in Configs : cfg.sample_from_bins = None
                           /\ cfg.reward_lora_scope = Some("reward")}

Construct ==
    /\ last.op = "idle"
    /\ \E self \in ScorerIds :
          /\ scorers[self] = NoObj
          /\ \E cfg \in PairConfigs : ConstructCall(self, cfg)

\* ------------------------------------------------------------- persistence

\* Module.state_dict(): parameter name -> value, over the reward model's own
\* parameters, its head's and its backbone copy's
StateDictKeys(s, palm) ==
    {"prompt_embed", "response_embed"}
        \cup {"to_pred." \o k : k \in DOMAIN s.to_pred.params}
        \cup {"palm." \o BaseKey}
        \cup {"palm." \o LoraKey(sc) : sc \in DOMAIN palm.lora}

StateDict(s, palm) ==
    [key \in StateDictKeys(s, palm) |->
        IF key = "prompt_embed" THEN s.prompt_embed
        ELSE IF key = "response_embed" THEN s.response_embed
        ELSE IF key = "palm." \o BaseKey THEN palm.base
        ELSE IF \E k \in DOMAIN s.to_pred.params : key = "to_pred." \o k
             THEN s.to_pred.params[CHOOSE k \in DOMAIN s.to_pred.params :
                                       key = "to_pred." \o k]
        ELSE palm.lora[CHOOSE sc \in DOMAIN palm.lora :
                           key = "palm." \o LoraKey(sc)].w]

\* the reward model and its backbone copy with the parameters set to sd
WithStateDict(s, palm, sd) ==
    [scorer |-> [s EXCEPT !.prompt_embed = sd["prompt_embed"],
                          !.response_embed = sd["response_embed"],
                          !.to_pred.params =
                              [k \in DOMAIN s.to_pred.params |-> sd["to_pred." \o k]]],
     palm |-> [palm EXCEPT !.base = sd["palm." \o BaseKey],
                           !.lora = [sc \in DOMAIN palm.lora |->
                               [palm.lora[sc] EXCEPT !.w = sd["palm." \o LoraKey(sc)]]]]]

\* load_state_dict as it would behave with strict = False
LoadStateDictNonStrict(sd, mapping) ==
    [sd |-> [key \in DOMAIN sd |->
                IF key \in DOMAIN mapping THEN mapping[key] ELSE sd[key]],
     result |-> Ok]

\* Module.load_state_dict(mapping) with strict left at its default (True):
\* every entry whose key the module has is copied in, and then missing or
\* unexpected keys raise
LoadStateDict(sd, mapping) ==
    [sd |-> [key \in DOMAIN sd |->
                IF key \in DOMAIN mapping THEN mapping[key] ELSE sd[key]],
     result |-> IF DOMAIN mapping = DOMAIN sd THEN Ok
                ELSE [kind |-> "error", value |-> "RuntimeError"]]

\* the parameter names of the head the reward model does not have
OtherHeadKeys(K) ==
    IF "to_pred.0.weight" \in K THEN {"to_pred.weight", "to_pred.bias"}
    ELSE {"to_pred.0.weight"}

HeadKeys(K) == K \cap {"to_pred.0.weight", "to_pred.weight", "to_pred.bias"}

\* what a path can hold: a mapping saved from a model of the same structure,
\* or one with a key missing, a key too many or the other head's keys; or
\* something torch.load cannot read
Checkpoints(K) ==
    {[kind |-> "state_dict",
      map |-> [key \in K2 |-> IF key = "prompt_embed" THEN 3 ELSE 2]] :
        K2 \in {K, K \ {"response_embed"}, K \cup {"unexpected"},
                (K \ HeadKeys(K)) \cup OtherHeadKeys(K)}}
    \cup {[kind |-> "garbage"]}

\* RewardModel.load(path); file is what the path holds, None when it does not exist
LoadCall(self, file) ==
    /\ last.op = "idle"
    /\ scorers[self] # NoObj
    /\ LET s == scorers[self]
           palm == palms[s.palm]
           res == LoadStateDict(StateDict(s, palm), TheVal(file).map)
           new == WithStateDict(s, palm, res.sd)
       IN IF ~exists(file)
          THEN /\ last' = [Idle EXCEPT !.op = "load", !.self = self, !.args = file,
                              !.result = [kind |-> "error", value |-> "AssertionError"]]
               /\ UNCHANGED <<palms, scorers>>
          ELSE IF TheVal(file).kind # "state_dict"
          THEN /\ last' = [Idle EXCEPT !.op = "load", !.self = self, !.args = file,
                              !.result = [kind |-> "error", value |-> "UnpicklingError"],
                              !.trace = <<"torch.load">>]
               /\ UNCHANGED <<palms, scorers>>
          ELSE /\ last' = [Idle EXCEPT !.op = "load", !.self = self, !.args = file,
                              !.result = res.result,
                              !.trace = <<"torch.load", "load_state_dict">>]
               /\ scorers' = [scorers EXCEPT ![self] = new.scorer]
               /\ palms' = [palms EXCEPT ![s.palm] = new.palm]

\* what the path passed to load may hold
Files(self) ==
    {None} \cup {Some(c) : c \in Checkpoints(
                     StateDictKeys(scorers[self], palms[scorers[self].palm]))}

Load ==
    /\ last.op = "idle"
    /\ \E self \in ScorerIds :
          /\ scorers[self] # NoObj
          /\ \E file \in Files(self) : LoadCall(self, file)

\* ----------------------------------------------------- finetune_parameters

\* self.to_pred.parameters()
ToPredParameters(self, s) ==
    SeqOfSet({<<"to_pred", self, k>> : k \in DOMAIN s.to_pred.params})

\* finetune_parameters ignoring the adapter scope
FinetuneParametersWholeBackbone(self, s, palm) ==
    ToPredParameters(self, s) \o PalmParameters(s.palm, palm)

\* RewardModel.finetune_parameters: the list it returns
FinetuneParameters(self, s, palm) ==
    ToPredParameters(self, s)
        \o (IF exists(s.reward_lora_scope)
            THEN PalmFinetuneParameters(s.palm, TheVal(s.reward_lora_scope))
            ELSE PalmParameters(s.palm, palm))

FinetuneParametersCall(self) ==
    /\ last.op = "idle"
    /\ scorers[self] # NoObj
    /\ last' = [Idle EXCEPT !.op = "finetune_parameters", !.self = self,
                   !.result = [kind |-> "list",
                               value |-> FinetuneParameters(
                                   self, scorers[self], palms[scorers[self].palm])]]
    /\ UNCHANGED <<palms, scorers>>

FinetuneParams ==
    /\ last.op = "idle"
    /\ \E self \in ScorerIds : FinetuneParametersCall(self)

\* ----------------------------------------------------------------- forward

\* the positions of a sequence, as torch.arange(seq_len) numbers them
Positions(seq_len) == 0..(seq_len - 1)

\* the comparison with <= in place of <
DeriveMaskInclusive(batch, seq_len, prompt_lengths) ==
    [i \in 1..batch |-> [j \in Positions(seq_len) |-> j <= prompt_lengths[i]]]

\* repeat(arange, 'n -> b n', b = batch) < rearrange(prompt_lengths, 'b -> b 1')
DeriveMask(batch, seq_len, prompt_lengths) ==
    [i \in 1..batch |-> [j \in Positions(seq_len) |-> j < prompt_lengths[i]]]

\* torch.where with its two branches exchanged
ExtraEmbedSwapped(s, prompt_mask) ==
    [i \in DOMAIN prompt_mask |->
        [j \in DOMAIN prompt_mask[i] |->
            IF prompt_mask[i][j] THEN s.response_embed ELSE s.prompt_embed]]

\* torch.where(prompt_mask[..., None], self.prompt_embed, self.response_embed)
ExtraEmbed(s, prompt_mask) ==
    [i \in DOMAIN prompt_mask |->
        [j \in DOMAIN prompt_mask[i] |->
            IF prompt_mask[i][j] THEN s.prompt_embed ELSE s.response_embed]]

\* the index of the largest entry
ArgMax(v) ==
    CHOOSE k \in DOMAIN v : \A j \in DOMAIN v : v[j] < v[k] \/ (v[j] = v[k] /\ k <= j)

\* utils.gumbel_sample(t, temperature, dim = -1): the arg-max over the bins of
\* t / temperature + noise (compared after scaling by the temperature)
GumbelSample(t, temperature, noise) ==
    [i \in DOMAIN t |->
        ArgMax([k \in DOMAIN t[i] |-> t[i][k] + temperature * noise[i][k]])]

\* if self.sample_from_bins and self.binned_output
Sampling(s) == s.sample_from_bins /\ s.binned_output

\* forward without its first assert
PromptAssertNeverFails(prompt_mask, prompt_lengths) == FALSE

\* assert not (exists(prompt_mask) and exists(prompt_lengths)): does it fail
PromptAssertFails(prompt_mask, prompt_lengths) ==
    exists(prompt_mask) /\ exists(prompt_lengths)

\* forward without the assert in its sampling branch
LabelsAssertNeverFails(labels) == FALSE

\* assert not exists(labels), reached only when sampling: does it fail
LabelsAssertFails(labels) == exists(labels)

Error(name) == [kind |-> "error", value |-> name]

Loss(fn, input, target) ==
    [kind |-> "loss", fn |-> fn, input |-> input, target |-> target]

Tensor(t) == [kind |-> "tensor", value |-> t]

\* what one forward call does: the steps it takes, the mask it works with, the
\* calls it makes to the backbone, and what it returns or raises.  env.pred is
\* what the head yields for this batch and env.noise the Gumbel noise drawn.
ForwardRun(s, a, env) ==
    IF PromptAssertFails(a.prompt_mask, a.prompt_lengths)
    THEN [result |-> Error("AssertionError"), trace |-> << >>,
          prompt_mask |-> None, palm_calls |-> << >>]
    ELSE
    LET derived == exists(a.prompt_lengths)
        prompt_mask == IF derived
                       THEN DeriveMask(a.x.batch, a.x.seq_len, a.prompt_lengths)
                       ELSE a.prompt_mask
        extra_embed == IF exists(prompt_mask) THEN ExtraEmbed(s, prompt_mask) ELSE None
        call == [palm |-> s.palm, x |-> a.x, extra_embed |-> extra_embed,
                 return_only_embedding |-> TRUE, disable_lora |-> a.disable_lora,
                 finetune_scope |-> s.reward_lora_scope]
        t1 == (IF derived THEN <<"derive_mask">> ELSE << >>)
                  \o (IF exists(prompt_mask) THEN <<"where">> ELSE << >>)
                  \o <<"palm", "masked_mean", "to_pred">>
        out == [result |-> NoResult, trace |-> t1,
                prompt_mask |-> prompt_mask, palm_calls |-> <<call>>]
    IN  IF Sampling(s) /\ LabelsAssertFails(a.labels)
        THEN [out EXCEPT !.result = Error("AssertionError")]
        ELSE
        LET pred == IF Sampling(s)
                    THEN GumbelSample(env.pred, s.sample_temperature, env.noise)
                    ELSE env.pred
            t2 == IF Sampling(s) THEN t1 \o <<"gumbel_sample">> ELSE t1
        IN  IF ~exists(a.labels)
            THEN [out EXCEPT !.result = Tensor(pred), !.trace = t2]
            ELSE IF ~s.binned_output
            THEN [out EXCEPT !.result = Loss("mse_loss", pred, a.labels),
                             !.trace = t2 \o <<"mse_loss">>]
            ELSE [out EXCEPT !.result = Loss("cross_entropy", pred, a.labels),
                             !.trace = t2 \o <<"cross_entropy">>]

\* RewardModel.forward
ForwardCall(self, a, env) ==
    /\ last.op = "idle"
    /\ scorers[self] # NoObj
    /\ LET run == ForwardRun(scorers[self], a, env)
       IN last' = [op |-> "forward", self |-> self, args |-> a, env |-> env,
                   result |-> run.result, trace |-> run.trace,
                   prompt_mask |-> run.prompt_mask, palm_calls |-> run.palm_calls]
    /\ UNCHANGED <<palms, scorers>>

\* ------------------------------------------------- the inputs of forward

Logits == {0, 1}

MaxNoise == CHOOSE m \in 2..3 : \A l \in Logits : l < m

Bins(s) == 0..(s.to_pred.out - 1)

\* what the head can yield for a batch: a scalar per example, or a logit per
\* bin per example
HeadOutputs(s, batch) ==
    IF s.binned_output THEN [1..batch -> [Bins(s) -> Logits]]
    ELSE [1..batch -> Logits]

\* labels that fit the head: a score per example, or a bin index per example
Labels(s, batch) ==
    IF s.binned_output THEN [1..batch -> Bins(s)] ELSE [1..batch -> Logits]

\* the noise over the bins of one example: none, or one bin lifted above
\* every logit, so that every bin can win the arg-max
RowNoises(s) ==
    {[k \in Bins(s) |-> IF k = h THEN MaxNoise ELSE 0] : h \in Bins(s) \cup {-1}}

GumbelNoises(s, batch) ==
    IF Sampling(s) THEN [1..batch -> RowNoises(s)] ELSE {None}

Shapes == [batch : 1..MaxBatch, seq_len : 1..MaxSeqLen]

Masks(x) == [1..x.batch -> [Positions(x.seq_len) -> BOOLEAN]]

Lengths(x) == [1..x.batch -> (-1)..(x.seq_len + 1)]

Args(X, M, PM, PL, L, DL) ==
    [x : X, mask : M, prompt_mask : PM, prompt_lengths : PL, labels : L,
     disable_lora : DL]

\* calls that vary the labels, the head output and the noise
ScoringArgs(s) ==
    UNION {Args({x}, {None}, {None}, {None},
                {None} \cup Labels(s, x.batch), {FALSE}) :
              x \in {x \in Shapes : x.seq_len = 1}}

ScoringEnvs(s, a) ==
    [pred : HeadOutputs(s, a.x.batch), noise : GumbelNoises(s, a.x.batch)]

AllTrue(x) == [i \in 1..x.batch |-> [j \in Positions(x.seq_len) |-> TRUE]]

\* calls that vary the prompt mask and the prompt lengths: every mask alone,
\* every lengths vector alone, neither, and every lengths vector together
\* with a mask
SegmentArgs(s) ==
    UNION {Args({x}, {None}, {None} \cup Masks(x), {None},
                {None, [i \in 1..x.batch |-> 0]}, BOOLEAN)
           \cup Args({x}, {None}, {None, AllTrue(x)}, Lengths(x),
                     {None, [i \in 1..x.batch |-> 0]}, BOOLEAN)
           \cup UNION {Args({x}, {None}, {DeriveMask(x.batch, x.seq_len, pl)}, {pl},
                            {None, [i \in 1..x.batch |-> 0]}, BOOLEAN) :
                          pl \in Lengths(x)} :
              x \in Shapes}

FirstOf(S) == {CHOOSE e \in S : TRUE}

SegmentEnvs(s, a) ==
    [pred : FirstOf(HeadOutputs(s, a.x.batch)),
     noise : FirstOf(GumbelNoises(s, a.x.batch))]

\* a few calls of every kind
FewArgs(s) ==
    UNION {Args({x}, {None, AllTrue(x)},
                {None, [i \in 1..x.batch |-> [j \in Positions(x.seq_len) |-> j = 0]]},
                {None, [i \in 1..x.batch |-> 1]},
                {None, [i \in 1..x.batch |-> 0]}, {FALSE}) :
              x \in {x \in Shapes : x.batch = 1 /\ x.seq_len = MaxSeqLen}}

Forward ==
    /\ last.op = "idle"
    /\ \E self \in ScorerIds :
        /\ scorers[self] # NoObj
        /\ \E a \in FewArgs(scorers[self]) :
              \E env \in SegmentEnvs(scorers[self], a) : ForwardCall(self, a, env)

ForwardScoring ==
    /\ last.op = "idle"
    /\ \E self \in ScorerIds :
        /\ scorers[self] # NoObj
        /\ \E a \in ScoringArgs(scorers[self]) :
              \E env \in ScoringEnvs(scorers[self], a) : ForwardCall(self, a, env)

ForwardSegment ==
    /\ last.op = "idle"
    /\ \E self \in ScorerIds :
        /\ scorers[self] # NoObj
        /\ \E a \in SegmentArgs(scorers[self]) :
              \E env \in SegmentEnvs(scorers[self], a) : ForwardCall(self, a, env)

\* the caller takes the outcome of the call that has just run
Return ==
    /\ last.op # "idle"
    /\ last' = Idle
    /\ UNCHANGED <<palms, scorers>>

\* the caller's backbone: dropout 0, with or without an adapter scope of its own
OrigPalms ==
    {[kind |-> "PaLM", dropout |-> 0, base |-> 1, lora |-> l] :
        l \in {[sc \in {} |-> 0], [sc \in {"default"} |-> [r |-> 8, w |-> 1]]}}

Init ==
    /\ \E p \in OrigPalms :
          palms = [i \in PalmIds |-> IF i = OrigPalm THEN p ELSE NoObj]
    /\ scorers = [s \in ScorerIds |-> NoObj]
    /\ last = Idle

Next == Construct \/ Load \/ FinetuneParams \/ Forward \/ Return

\* two reward models built from one backbone
Spec == Init /\ [][Next]_vars

ConstructFirst ==
    /\ last.op = "idle"
    /\ scorers[1] = NoObj
    /\ \E cfg \in Configs : ConstructCall(1, cfg)

NextScoring ==
    ConstructFirst \/ Load \/ FinetuneParams \/ ForwardScoring \/ Return

\* one reward model of any configuration; forward calls that vary the labels,
\* the head output and the noise
SpecScoring == Init /\ [][NextScoring]_vars

NextSegment == ConstructFirst \/ Load \/ ForwardSegment \/ Return

\* one reward model of any configuration; forward calls that vary the prompt
\* mask and the prompt lengths
SpecSegment == Init /\ [][NextSegment]_vars

\* ------------------------------------------------------------------ claims

IsForward == last.op = "forward"

\* the reward model the last call was made on
Self == scorers[last.self]

BothSupplied == exists(last.args.prompt_mask) /\ exists(last.args.prompt_lengths)

InTrace(step) == \E k \in DOMAIN last.trace : last.trace[k] = step

\* the configuration, read off the constructor's arguments
BuiltBinned(s) == s.built.num_binned_output > 1

BuiltSampling(s) ==
    BuiltBinned(s) /\ s.built.sample_from_bins \in {None, Some(TRUE)}

\* C1: whenever labels are supplied, forward returns a loss and draws no
\* sample, whatever the configuration: mse_loss for a regression head,
\* cross_entropy for a classification head even with sample_from_bins true.
C1_LabelsAlwaysGiveLoss ==
    (IsForward /\ exists(last.args.labels) /\ ~BothSupplied) =>
        /\ last.result.kind = "loss"
        /\ ~InTrace("gumbel_sample")
        /\ last.result.fn = (IF BuiltBinned(Self) THEN "cross_entropy" ELSE "mse_loss")
        /\ last.result.input = last.env.pred
        /\ last.result.target = last.args.labels

\* C2: no forward call both draws a Gumbel sample and returns a loss, and a
\* call with labels on a classification model that samples from its bins
\* raises.
C2_SamplingExcludesLoss ==
    IsForward =>
        /\ ~(InTrace("gumbel_sample") /\ last.result.kind = "loss")
        /\ (BuiltSampling(Self) /\ exists(last.args.labels)) => last.result.kind = "error"

C2_Witness ==
    /\ IsForward
    /\ BuiltSampling(Self)
    /\ exists(last.args.labels)
    /\ InTrace("to_pred")
    /\ last.result = Error("AssertionError")

\* C3: a forward call given both prompt_mask and prompt_lengths raises before
\* it derives a mask, builds a segment embedding or calls the backbone.
C3_BothSuppliedFailsFirst ==
    (IsForward /\ BothSupplied) =>
        /\ last.result = Error("AssertionError")
        /\ last.trace = << >>
        /\ last.prompt_mask = None
        /\ last.palm_calls = << >>

C3_Witness ==
    /\ IsForward
    /\ BothSupplied
    /\ exists(last.args.labels)
    /\ last.args.disable_lora
    /\ Self.binned_output
    /\ last.result.kind = "error"

\* C4: the mask derived from prompt_lengths is true at (i, j) exactly when
\* j < prompt_lengths[i]; a row whose length lies in 0..seq_len is that many
\* true entries followed by false ones only; lengths (3, 5) over 5 positions
\* give T T T F F and T T T T T.
C4_DerivedMaskIsPrefix ==
    /\ DeriveMask(2, 5, <<3, 5>>) =
           <<[j \in 0..4 |-> j \in {0, 1, 2}], [j \in 0..4 |-> TRUE]>>
    /\ (IsForward /\ exists(last.args.prompt_lengths) /\ ~exists(last.args.prompt_mask)) =>
           LET pl == last.args.prompt_lengths
               n == last.args.x.seq_len
               m == last.prompt_mask
           IN  /\ DOMAIN m = 1..last.args.x.batch
               /\ \A i \in DOMAIN m :
                     /\ DOMAIN m[i] = 0..(n - 1)
                     /\ \A j \in DOMAIN m[i] : m[i][j] <=> (j < pl[i])
                     /\ (0 <= pl[i] /\ pl[i] <= n) =>
                           /\ Cardinality({j \in DOMAIN m[i] : m[i][j]}) = pl[i]
                           /\ \A j, k \in DOMAIN m[i] : (j < k /\ m[i][k]) => m[i][j]

C4_Witness ==
    /\ IsForward
    /\ exists(last.args.prompt_lengths)
    /\ ~exists(last.args.prompt_mask)
    /\ InTrace("derive_mask")
    /\ \E i \in DOMAIN last.prompt_mask :
          /\ 0 < last.args.prompt_lengths[i]
          /\ last.args.prompt_lengths[i] < last.args.x.seq_len

\* C5: the extra embedding forward hands to the backbone is the prompt
\* embedding where the supplied or derived prompt mask is true and the
\* response embedding where it is false, and None when neither a mask nor
\* lengths were supplied.
C5_ExtraEmbedFollowsMask ==
    (IsForward /\ ~BothSupplied) =>
        /\ Len(last.palm_calls) = 1
        /\ LET e == last.palm_calls[1].extra_embed
               pm == last.args.prompt_mask
               pl == last.args.prompt_lengths
               x == last.args.x
           IN  /\ (~exists(pm) /\ ~exists(pl)) => e = None
               /\ exists(pm) =>
                     \A i \in 1..x.batch : \A j \in Positions(x.seq_len) :
                         e[i][j] = (IF pm[i][j] THEN Self.prompt_embed
                                    ELSE Self.response_embed)
               /\ exists(pl) =>
                     \A i \in 1..x.batch : \A j \in Positions(x.seq_len) :
                         e[i][j] = (IF j < pl[i] THEN Self.prompt_embed
                                    ELSE Self.response_embed)

C5_Witness ==
    /\ IsForward
    /\ exists(last.args.prompt_mask)
    /\ last.result.kind = "tensor"
    /\ Self.prompt_embed # Self.response_embed
    /\ \E i \in DOMAIN last.args.prompt_mask :
          \E j, k \in DOMAIN last.args.prompt_mask[i] :
              last.args.prompt_mask[i][j] /\ ~last.args.prompt_mask[i][k]

\* the parameters of the head of a reward model
HeadParams(self) ==
    {<<"to_pred", self, k>> : k \in DOMAIN scorers[self].to_pred.params}

\* every parameter of a backbone instance
BackboneParams(pid) ==
    {<<"palm", pid, BaseKey>>}
        \cup {<<"palm", pid, LoraKey(sc)>> : sc \in DOMAIN palms[pid].lora}

\* C6: finetune_parameters returns, with an adapter scope, exactly the head's
\* parameters and the backbone copy's adapter parameters of that scope (no
\* base weight, no segment embedding); without one, exactly the head's
\* parameters and every parameter of the backbone copy.
C6_FinetuneParametersExact ==
    last.op = "finetune_parameters" =>
        LET s == Self
            list == last.result.value
            got == {list[k] : k \in DOMAIN list}
        IN  /\ Len(list) = Cardinality(got)
            /\ \A p \in got : p[1] \in {"to_pred", "palm"}
            /\ IF exists(s.reward_lora_scope)
               THEN /\ got = HeadParams(last.self)
                              \cup {<<"palm", s.palm, LoraKey(TheVal(s.reward_lora_scope))>>}
                    /\ <<"palm", s.palm, BaseKey>> \notin got
               ELSE got = HeadParams(last.self) \cup BackboneParams(s.palm)

C6_Witness ==
    /\ last.op = "finetune_parameters"
    /\ exists(Self.reward_lora_scope)
    /\ "default" \in DOMAIN palms[Self.palm].lora
    /\ Self.binned_output

\* C7: without labels, forward returns a sampled bin index in [0, num_bins)
\* per example exactly when the model was built with num_bins > 1 and
\* sample_from_bins true (or left at its default); otherwise it returns the
\* head output as it is, a scalar per example for a regression head and
\* num_bins logits per example for a classification head.
C7_NoLabelsOutcome ==
    (IsForward /\ ~exists(last.args.labels) /\ ~BothSupplied) =>
        LET s == Self
            v == last.result.value
            bins == 0..(s.built.num_binned_output - 1)
        IN  /\ last.result.kind = "tensor"
            /\ InTrace("gumbel_sample") <=> BuiltSampling(s)
            /\ DOMAIN v = 1..last.args.x.batch
            /\ IF BuiltSampling(s) THEN \A i \in DOMAIN v : v[i] \in bins
               ELSE /\ v = last.env.pred
                    /\ IF BuiltBinned(s) THEN \A i \in DOMAIN v : DOMAIN v[i] = bins
                       ELSE \A i \in DOMAIN v : v[i] \in Logits

C7_Witness ==
    /\ IsForward
    /\ ~exists(last.args.labels)
    /\ BuiltSampling(Self)
    /\ Self.built.sample_from_bins = None
    /\ \E i \in DOMAIN last.result.value :
          /\ last.result.value[i] = Self.built.num_binned_output - 1
          /\ last.result.value[i] # ArgMax(last.env.pred[i])

\* C8: the caller's backbone is never changed, neither by constructing a
\* reward model nor by anything done with one, and no reward model shares
\* its backbone object with the caller or with another reward model.
C8_OriginalBackboneUntouched ==
    [][/\ palms'[OrigPalm] = palms[OrigPalm]
       /\ \A s \in ScorerIds :
             scorers'[s] # NoObj =>
                 /\ scorers'[s].palm # OrigPalm
                 /\ \A t \in ScorerIds \ {s} :
                       scorers'[t] # NoObj => scorers'[t].palm # scorers'[s].palm]_vars

C8_Witness ==
    /\ \A s \in ScorerIds : scorers[s] # NoObj
    /\ last.op = "load"
    /\ last.result = Ok
    /\ palms[scorers[1].palm].dropout # palms[OrigPalm].dropout
    /\ palms[scorers[1].palm].base # palms[OrigPalm].base
    /\ "reward" \in DOMAIN palms[scorers[1].palm].lora
    /\ "reward" \notin DOMAIN palms[OrigPalm].lora
    /\ palms[scorers[2].palm].base = palms[OrigPalm].base

HeadAgrees(s) ==
    /\ s.binned_output <=> BuiltBinned(s)
    /\ s.to_pred.kind = (IF s.binned_output THEN "Linear" ELSE "Sequential")
    /\ s.to_pred.out = (IF s.binned_output THEN s.built.num_binned_output ELSE 1)
    /\ DOMAIN s.to_pred.params =
           (IF s.binned_output THEN {"weight", "bias"} ELSE {"0.weight"})

\* C10: a forward or finetune_parameters call, returning or raising, leaves
\* every reward model and every backbone as it was, and the head a reward
\* model has always agrees with binned_output (classification iff
\* num_bins > 1).
C10_CallsLeaveStateAlone ==
    [][/\ last'.op \in {"forward", "finetune_parameters"} =>
              (scorers' = scorers /\ palms' = palms)
       /\ \A s \in ScorerIds : scorers'[s] # NoObj => HeadAgrees(scorers'[s])]_vars

C10_Witness ==
    /\ IsForward
    /\ last.result.kind = "error"
    /\ Self.binned_output
    /\ Self.prompt_embed # 0

====
